---------------------------- MODULE Spec2Model ----------------------------
(***************************************************************************)
(* Model of python_serial_reg/serial_reg.py: the CRC-8 engine, the serial  *)
(* reader thread with its byte accumulator (rx_buffer) and frame           *)
(* extraction loop, the two frame handlers, and the connection handling    *)
(* of SerialApp.                                                           *)
(*                                                                         *)
(* Spec     one connection session with its single reader thread: the      *)
(*          stream parser fed an inbound byte stream in arbitrary chunks.  *)
(* SpecApp  the application: connect / disconnect / window close on the    *)
(*          UI thread interleaved with the reader threads it starts.       *)
(* FairSpec Spec with the extraction loop scheduled fairly.                *)
(* SpecTx   the command panel: register and data fields, READ/WRITE        *)
(*          switch, send, heartbeat, sliders and emergency stop.           *)
(* SpecCases   the stream parser on chosen streams: encoded command        *)
(*          frames, frames with one bit flipped, unframed bytes.           *)
(* SpecDecode  the two frame handlers called directly on packets of        *)
(*          every length.                                                  *)
(***************************************************************************)
EXTENDS Integers, Sequences, FiniteSets, TLC

VARIABLES
    stream,          \* the bytes the device sends (input)
    segs,            \* the segments stream is made of (names of Segment)
    fed,             \* number of bytes of stream that have left the device
    wire,            \* bytes waiting in the open port (self.ser.in_waiting)
    is_connected,    \* self.is_connected
    stop_thread,     \* self.stop_thread
    ser,             \* self.ser: 0 is None, n the port opened by the n-th connect
    ser_open,        \* self.ser.is_open
    closed,          \* the window has been destroyed
    pc,              \* pc[t]: position of reader thread t in _read_serial_loop
    data,            \* data[t]: the chunk thread t has read and not yet appended
    rx_buffer,       \* self.rx_buffer: the accumulator
    rx_sess,         \* for each byte of rx_buffer, the port it was read from
    consumed,        \* number of bytes deleted from the head of rx_buffer
    emitted,         \* the handler calls made so far, in order
    imu_throttled,   \* (time.time() - self.last_imu_update) < 0.1
    txt_imu,         \* timestamp rendered in the telemetry text box
    entry_reg,       \* text of self.entry_reg, a sequence of characters
    entry_data,      \* text of self.entry_data, a sequence of characters
    switch_rw,       \* self.switch_rw.get(): 1 is READ, 0 is WRITE
    is_auto_sending, \* self.is_auto_sending
    after_pending,   \* _auto_send_loop callbacks scheduled by self.after
    tx,              \* the frame last written by self.ser.write, if any
    aru              \* the session in which _emergency_stop last ran with the
                     \* panel untouched since; 0 when there is none

inVars   == <<stream, segs>>
connVars == <<is_connected, stop_thread, ser, ser_open, closed>>
accVars  == <<rx_buffer, rx_sess, consumed>>
outVars  == <<emitted, imu_throttled, txt_imu>>
txVars   == <<entry_reg, entry_data, switch_rw, is_auto_sending,
              after_pending, tx, aru>>

vars == <<stream, segs, fed, wire, is_connected, stop_thread, ser, ser_open,
          closed, pc, data, rx_buffer, rx_sess, consumed, emitted,
          imu_throttled, txt_imu, entry_reg, entry_data, switch_rw,
          is_auto_sending, after_pending, tx, aru>>

(***************************************************************************)
(* Bounds of the model.                                                    *)
(***************************************************************************)
MaxSegs == 2         \* segments per inbound stream
MaxGarbage == 4      \* garbage bytes in front of a frame (resync streams)
MaxSessions == 2     \* connections made, hence reader threads started
MaxPending == 2      \* heartbeat callbacks scheduled at one time
MaxCalls == 2        \* direct handler calls (SpecDecode)

(***************************************************************************)
(* Program constants.                                                      *)
(***************************************************************************)
IMU_SIZE == 37
CMD_SIZE == 4

Byte == 0..255

Threads == 1..MaxSessions

(***************************************************************************)
(* Bit operations on naturals below 2^16 (the widest value the program     *)
(* combines is a 16-bit register value).                                   *)
(***************************************************************************)
\* Bit i of x.
Bit(x, i) == (x \div (2 ^ i)) % 2

\* a ^ b and a & b on the low eight bits.
Xor8(a, b) ==
      ((a + b) % 2)
    + 2 * ((Bit(a, 1) + Bit(b, 1)) % 2)
    + 4 * ((Bit(a, 2) + Bit(b, 2)) % 2)
    + 8 * ((Bit(a, 3) + Bit(b, 3)) % 2)
    + 16 * ((Bit(a, 4) + Bit(b, 4)) % 2)
    + 32 * ((Bit(a, 5) + Bit(b, 5)) % 2)
    + 64 * ((Bit(a, 6) + Bit(b, 6)) % 2)
    + 128 * ((Bit(a, 7) + Bit(b, 7)) % 2)

And8(a, b) ==
      ((a % 2) * (b % 2))
    + 2 * Bit(a, 1) * Bit(b, 1)
    + 4 * Bit(a, 2) * Bit(b, 2)
    + 8 * Bit(a, 3) * Bit(b, 3)
    + 16 * Bit(a, 4) * Bit(b, 4)
    + 32 * Bit(a, 5) * Bit(b, 5)
    + 64 * Bit(a, 6) * Bit(b, 6)
    + 128 * Bit(a, 7) * Bit(b, 7)

\* a ^ b, a & b and a | b for operands below 2^16.
BitXor(a, b) ==
    IF a < 256 /\ b < 256 THEN Xor8(a, b)
    ELSE Xor8(a % 256, b % 256) + 256 * Xor8(a \div 256, b \div 256)

BitAnd(a, b) ==
    IF a < 256 \/ b < 256 THEN And8(a % 256, b % 256)
    ELSE And8(a % 256, b % 256) + 256 * And8(a \div 256, b \div 256)

BitOr(a, b) == a + b - BitAnd(a, b)

(***************************************************************************)
(* crc8_atm: for each byte, crc ^= byte, then eight times: shift left,     *)
(* XOR 0x07 when the top bit was set, mask to 8 bits.                      *)
(***************************************************************************)
\* One pass of `for _ in range(8)`.
CrcShift[crc \in Byte] ==
    IF BitAnd(crc, 128) # 0 THEN BitAnd(BitXor(crc * 2, 7), 255)
    ELSE BitAnd(crc * 2, 255)

\* The eight passes, for every value of crc after `crc ^= byte`.
CrcShift8[crc \in Byte] ==
    CrcShift[CrcShift[CrcShift[CrcShift[
        CrcShift[CrcShift[CrcShift[CrcShift[crc]]]]]]]]

\* `crc ^= byte` followed by the eight passes.
CrcByte[crc \in Byte] == [byte \in Byte |-> CrcShift8[BitXor(crc, byte)]]

\* crc8_atm reading only the low seven bits of every byte.
crc8_atm_low7(bs) ==
    LET CrcFrom[i \in 0..Len(bs)] ==
            IF i = 0 THEN 0 ELSE CrcByte[CrcFrom[i - 1]][bs[i] % 128]
    IN  CrcFrom[Len(bs)]

\* crc8_atm with the accumulator starting at 0xFF.
crc8_atm_init_ff(bs) ==
    LET CrcFrom[i \in 0..Len(bs)] ==
            IF i = 0 THEN 255 ELSE CrcByte[CrcFrom[i - 1]][bs[i]]
    IN  CrcFrom[Len(bs)]

\* The accumulator after the first i bytes of bs; it starts at 0.
crc8_atm(bs) ==
    LET CrcFrom[i \in 0..Len(bs)] ==
            IF i = 0 THEN 0 ELSE CrcByte[CrcFrom[i - 1]][bs[i]]
    IN  CrcFrom[Len(bs)]

(***************************************************************************)
(* Sequence helpers: Python slices.                                        *)
(***************************************************************************)
Take(s, n) == SubSeq(s, 1, IF n < Len(s) THEN n ELSE Len(s))
Drop(s, n) == SubSeq(s, n + 1, Len(s))
Front(s) == SubSeq(s, 1, Len(s) - 1)
Last(s) == s[Len(s)]

(***************************************************************************)
(* Inbound traffic.  The device's frames are inputs of the program: a      *)
(* telemetry frame is 0xAA 0x55, 34 payload bytes and the CRC of those 36  *)
(* bytes; a command response is header, data low, data high and the CRC    *)
(* of those three.                                                         *)
(***************************************************************************)
ImuFrame(payload) ==
    LET body == <<170, 85>> \o payload
    IN  Append(body, crc8_atm(body))

CmdFrame(reg, value) ==
    LET v16 == value % 65536
        body == <<reg % 128, v16 % 256, v16 \div 256>>
    IN  Append(body, crc8_atm(body))

\* The frame with its CRC byte flipped.
FlipCrc(frame) == Append(Front(frame), BitXor(Last(frame), 255))

\* reserved 0 0, timestamp 1000, floats 1.0 2.0 3.0 4.0 5.0 6.0 7.0
PayloadTV ==
    <<0, 0, 232, 3, 0, 0, 0, 0, 128, 63, 0, 0, 0, 64, 0, 0, 64, 64,
      0, 0, 128, 64, 0, 0, 160, 64, 0, 0, 192, 64, 0, 0, 224, 64>>

PayloadFF == [i \in 1..34 |-> 255]

Catalog == {"CMD", "CMD55", "IMU", "BAD_TV", "BAD_FF", "AA", "HI"}

GarbageIds == <<"HI", "G80", "GAB">>

SegCmd == CmdFrame(1, -500)
SegCmd55 == CmdFrame(85, 0)
SegImu == ImuFrame(PayloadTV)
SegBadTV == FlipCrc(ImuFrame(PayloadTV))
SegBadFF == FlipCrc(ImuFrame(PayloadFF))

Segment(id) ==
    CASE id = "CMD"    -> SegCmd
      [] id = "CMD55"  -> SegCmd55
      [] id = "IMU"    -> SegImu
      [] id = "BAD_TV" -> SegBadTV
      [] id = "BAD_FF" -> SegBadFF
      [] id = "AA"     -> <<170>>
      [] id = "HI"     -> <<255>>
      [] id = "G80"    -> <<128>>
      [] id = "GAB"    -> <<171>>

RECURSIVE Flatten(_)
Flatten(ss) ==
    IF ss = <<>> THEN <<>> ELSE Segment(Head(ss)) \o Flatten(Tail(ss))

\* Stream offset of segment j of ss.
SegStartOf(ss, j) == Len(Flatten(SubSeq(ss, 1, j - 1)))

GarbageRun(n) == [i \in 1..n |-> GarbageIds[((i - 1) % Len(GarbageIds)) + 1]]

SegStreams == UNION {[1..n -> Catalog] : n \in 0..MaxSegs}

ResyncStreams == {GarbageRun(n) \o <<"CMD">> : n \in 0..MaxGarbage}

Streams == SegStreams \cup ResyncStreams

(***************************************************************************)
(* Variants of Iter with one decision changed.                             *)
(***************************************************************************)
\* Iter with the CRC check of the 4-byte candidate left out.
IterNoCmdCrc(buf) ==
    IF Len(buf) = 0 THEN [act |-> "stop", n |-> 0, why |-> "empty"]
    ELSE IF buf[1] = 170 THEN
        IF Len(buf) < 2 THEN [act |-> "stop", n |-> 0, why |-> "short"]
        ELSE IF buf[2] = 85 THEN
            IF Len(buf) < IMU_SIZE THEN [act |-> "stop", n |-> 0, why |-> "short"]
            ELSE LET packet == Take(buf, IMU_SIZE)
                 IN  IF crc8_atm(Front(packet)) = Last(packet)
                     THEN [act |-> "emit_imu", n |-> IMU_SIZE, why |-> "ok"]
                     ELSE [act |-> "drop", n |-> 1, why |-> "imu_crc"]
        ELSE [act |-> "drop", n |-> 1, why |-> "magic"]
    ELSE IF BitAnd(buf[1], 128) = 0 THEN
        IF Len(buf) < CMD_SIZE THEN [act |-> "stop", n |-> 0, why |-> "short"]
        ELSE LET packet == Take(buf, CMD_SIZE)
             IN  IF TRUE
                 THEN [act |-> "emit_cmd", n |-> CMD_SIZE, why |-> "ok"]
                 ELSE [act |-> "drop", n |-> 1, why |-> "cmd_crc"]
    ELSE [act |-> "drop", n |-> 1, why |-> "unknown"]

\* Iter dropping the whole 4-byte candidate, not its first byte, on a CRC mismatch.
IterDropCandidate(buf) ==
    IF Len(buf) = 0 THEN [act |-> "stop", n |-> 0, why |-> "empty"]
    ELSE IF buf[1] = 170 THEN
        IF Len(buf) < 2 THEN [act |-> "stop", n |-> 0, why |-> "short"]
        ELSE IF buf[2] = 85 THEN
            IF Len(buf) < IMU_SIZE THEN [act |-> "stop", n |-> 0, why |-> "short"]
            ELSE LET packet == Take(buf, IMU_SIZE)
                 IN  IF crc8_atm(Front(packet)) = Last(packet)
                     THEN [act |-> "emit_imu", n |-> IMU_SIZE, why |-> "ok"]
                     ELSE [act |-> "drop", n |-> 1, why |-> "imu_crc"]
        ELSE [act |-> "drop", n |-> 1, why |-> "magic"]
    ELSE IF BitAnd(buf[1], 128) = 0 THEN
        IF Len(buf) < CMD_SIZE THEN [act |-> "stop", n |-> 0, why |-> "short"]
        ELSE LET packet == Take(buf, CMD_SIZE)
             IN  IF crc8_atm(Front(packet)) = Last(packet)
                 THEN [act |-> "emit_cmd", n |-> CMD_SIZE, why |-> "ok"]
                 ELSE [act |-> "drop", n |-> CMD_SIZE, why |-> "cmd_crc"]
    ELSE [act |-> "drop", n |-> 1, why |-> "unknown"]

\* Iter deleting two bytes for an unrecognized leading byte.
IterUnknownPair(buf) ==
    IF Len(buf) = 0 THEN [act |-> "stop", n |-> 0, why |-> "empty"]
    ELSE IF buf[1] = 170 THEN
        IF Len(buf) < 2 THEN [act |-> "stop", n |-> 0, why |-> "short"]
        ELSE IF buf[2] = 85 THEN
            IF Len(buf) < IMU_SIZE THEN [act |-> "stop", n |-> 0, why |-> "short"]
            ELSE LET packet == Take(buf, IMU_SIZE)
                 IN  IF crc8_atm(Front(packet)) = Last(packet)
                     THEN [act |-> "emit_imu", n |-> IMU_SIZE, why |-> "ok"]
                     ELSE [act |-> "drop", n |-> 1, why |-> "imu_crc"]
        ELSE [act |-> "drop", n |-> 1, why |-> "magic"]
    ELSE IF BitAnd(buf[1], 128) = 0 THEN
        IF Len(buf) < CMD_SIZE THEN [act |-> "stop", n |-> 0, why |-> "short"]
        ELSE LET packet == Take(buf, CMD_SIZE)
             IN  IF crc8_atm(Front(packet)) = Last(packet)
                 THEN [act |-> "emit_cmd", n |-> CMD_SIZE, why |-> "ok"]
                 ELSE [act |-> "drop", n |-> 1, why |-> "cmd_crc"]
    ELSE [act |-> "drop", n |-> IF Len(buf) < 2 THEN 1 ELSE 2, why |-> "unknown"]

\* Iter waiting until more than CMD_SIZE bytes are buffered.
IterCmdWaitsOneMore(buf) ==
    IF Len(buf) = 0 THEN [act |-> "stop", n |-> 0, why |-> "empty"]
    ELSE IF buf[1] = 170 THEN
        IF Len(buf) < 2 THEN [act |-> "stop", n |-> 0, why |-> "short"]
        ELSE IF buf[2] = 85 THEN
            IF Len(buf) < IMU_SIZE THEN [act |-> "stop", n |-> 0, why |-> "short"]
            ELSE LET packet == Take(buf, IMU_SIZE)
                 IN  IF crc8_atm(Front(packet)) = Last(packet)
                     THEN [act |-> "emit_imu", n |-> IMU_SIZE, why |-> "ok"]
                     ELSE [act |-> "drop", n |-> 1, why |-> "imu_crc"]
        ELSE [act |-> "drop", n |-> 1, why |-> "magic"]
    ELSE IF BitAnd(buf[1], 128) = 0 THEN
        IF Len(buf) <= CMD_SIZE THEN [act |-> "stop", n |-> 0, why |-> "short"]
        ELSE LET packet == Take(buf, CMD_SIZE)
             IN  IF crc8_atm(Front(packet)) = Last(packet)
                 THEN [act |-> "emit_cmd", n |-> CMD_SIZE, why |-> "ok"]
                 ELSE [act |-> "drop", n |-> 1, why |-> "cmd_crc"]
    ELSE [act |-> "drop", n |-> 1, why |-> "unknown"]

\* Iter dropping a byte, instead of waiting, when a telemetry candidate is incomplete.
IterShortImuDrops(buf) ==
    IF Len(buf) = 0 THEN [act |-> "stop", n |-> 0, why |-> "empty"]
    ELSE IF buf[1] = 170 THEN
        IF Len(buf) < 2 THEN [act |-> "stop", n |-> 0, why |-> "short"]
        ELSE IF buf[2] = 85 THEN
            IF Len(buf) < IMU_SIZE THEN [act |-> "drop", n |-> 1, why |-> "short"]
            ELSE LET packet == Take(buf, IMU_SIZE)
                 IN  IF crc8_atm(Front(packet)) = Last(packet)
                     THEN [act |-> "emit_imu", n |-> IMU_SIZE, why |-> "ok"]
                     ELSE [act |-> "drop", n |-> 1, why |-> "imu_crc"]
        ELSE [act |-> "drop", n |-> 1, why |-> "magic"]
    ELSE IF BitAnd(buf[1], 128) = 0 THEN
        IF Len(buf) < CMD_SIZE THEN [act |-> "stop", n |-> 0, why |-> "short"]
        ELSE LET packet == Take(buf, CMD_SIZE)
             IN  IF crc8_atm(Front(packet)) = Last(packet)
                 THEN [act |-> "emit_cmd", n |-> CMD_SIZE, why |-> "ok"]
                 ELSE [act |-> "drop", n |-> 1, why |-> "cmd_crc"]
    ELSE [act |-> "drop", n |-> 1, why |-> "unknown"]

\* Iter stopping, instead of dropping, on an unrecognized leading byte.
IterStopsOnUnknown(buf) ==
    IF Len(buf) = 0 THEN [act |-> "stop", n |-> 0, why |-> "empty"]
    ELSE IF buf[1] = 170 THEN
        IF Len(buf) < 2 THEN [act |-> "stop", n |-> 0, why |-> "short"]
        ELSE IF buf[2] = 85 THEN
            IF Len(buf) < IMU_SIZE THEN [act |-> "stop", n |-> 0, why |-> "short"]
            ELSE LET packet == Take(buf, IMU_SIZE)
                 IN  IF crc8_atm(Front(packet)) = Last(packet)
                     THEN [act |-> "emit_imu", n |-> IMU_SIZE, why |-> "ok"]
                     ELSE [act |-> "drop", n |-> 1, why |-> "imu_crc"]
        ELSE [act |-> "drop", n |-> 1, why |-> "magic"]
    ELSE IF BitAnd(buf[1], 128) = 0 THEN
        IF Len(buf) < CMD_SIZE THEN [act |-> "stop", n |-> 0, why |-> "short"]
        ELSE LET packet == Take(buf, CMD_SIZE)
             IN  IF crc8_atm(Front(packet)) = Last(packet)
                 THEN [act |-> "emit_cmd", n |-> CMD_SIZE, why |-> "ok"]
                 ELSE [act |-> "drop", n |-> 1, why |-> "cmd_crc"]
    ELSE [act |-> "stop", n |-> 0, why |-> "unknown"]

\* Iter dropping the pair when 0xAA is not followed by 0x55.
IterMagicDropsPair(buf) ==
    IF Len(buf) = 0 THEN [act |-> "stop", n |-> 0, why |-> "empty"]
    ELSE IF buf[1] = 170 THEN
        IF Len(buf) < 2 THEN [act |-> "stop", n |-> 0, why |-> "short"]
        ELSE IF buf[2] = 85 THEN
            IF Len(buf) < IMU_SIZE THEN [act |-> "stop", n |-> 0, why |-> "short"]
            ELSE LET packet == Take(buf, IMU_SIZE)
                 IN  IF crc8_atm(Front(packet)) = Last(packet)
                     THEN [act |-> "emit_imu", n |-> IMU_SIZE, why |-> "ok"]
                     ELSE [act |-> "drop", n |-> 1, why |-> "imu_crc"]
        ELSE [act |-> "drop", n |-> 2, why |-> "magic"]
    ELSE IF BitAnd(buf[1], 128) = 0 THEN
        IF Len(buf) < CMD_SIZE THEN [act |-> "stop", n |-> 0, why |-> "short"]
        ELSE LET packet == Take(buf, CMD_SIZE)
             IN  IF crc8_atm(Front(packet)) = Last(packet)
                 THEN [act |-> "emit_cmd", n |-> CMD_SIZE, why |-> "ok"]
                 ELSE [act |-> "drop", n |-> 1, why |-> "cmd_crc"]
    ELSE [act |-> "drop", n |-> 1, why |-> "unknown"]

(***************************************************************************)
(* One iteration of the extraction loop `while len(self.rx_buffer) > 0`   *)
(* on accumulator buf: what it decides and how many bytes it deletes.      *)
(*   stop     the loop ends (empty, or break on a short read)              *)
(*   emit_imu the leading 37 bytes pass the CRC: handler, then del [:37]   *)
(*   emit_cmd the leading 4 bytes pass the CRC: handler, then del [:4]     *)
(*   drop     del [:1]                                                     *)
(***************************************************************************)
Iter(buf) ==
    IF Len(buf) = 0 THEN [act |-> "stop", n |-> 0, why |-> "empty"]
    ELSE IF buf[1] = 170 THEN
        IF Len(buf) < 2 THEN [act |-> "stop", n |-> 0, why |-> "short"]
        ELSE IF buf[2] = 85 THEN
            IF Len(buf) < IMU_SIZE THEN [act |-> "stop", n |-> 0, why |-> "short"]
            ELSE LET packet == Take(buf, IMU_SIZE)
                 IN  IF crc8_atm(Front(packet)) = Last(packet)
                     THEN [act |-> "emit_imu", n |-> IMU_SIZE, why |-> "ok"]
                     ELSE [act |-> "drop", n |-> 1, why |-> "imu_crc"]
        ELSE [act |-> "drop", n |-> 1, why |-> "magic"]
    ELSE IF BitAnd(buf[1], 128) = 0 THEN
        IF Len(buf) < CMD_SIZE THEN [act |-> "stop", n |-> 0, why |-> "short"]
        ELSE LET packet == Take(buf, CMD_SIZE)
             IN  IF crc8_atm(Front(packet)) = Last(packet)
                 THEN [act |-> "emit_cmd", n |-> CMD_SIZE, why |-> "ok"]
                 ELSE [act |-> "drop", n |-> 1, why |-> "cmd_crc"]
    ELSE [act |-> "drop", n |-> 1, why |-> "unknown"]

(***************************************************************************)
(* The handlers.                                                           *)
(***************************************************************************)
\* struct.unpack('<BBBBI...'): the timestamp is bytes 4..7, little-endian.
UnpackTimestamp(packet) ==
    packet[5] + 256 * packet[6] + 65536 * packet[7] + 16777216 * packet[8]

\* decode_and_show_imu without the rate limit.
decode_and_show_imu_always(packet, throttled) == <<UnpackTimestamp(packet)>>

\* struct.calcsize('<BBBBIf f f f f f f B'): struct.unpack raises
\* struct.error for a buffer of any other length.
StructSize == 4 * 1 + 4 + 7 * 4 + 1

\* _decode_and_show_imu: returns at once when less than 0.1 s have passed
\* since the last rendered frame; otherwise decodes and renders.  A
\* struct.error is caught by `except Exception: pass`: nothing is rendered.
decode_and_show_imu(packet, throttled) ==
    IF throttled THEN <<>>
    ELSE IF Len(packet) # StructSize THEN <<>>
    ELSE <<UnpackTimestamp(packet)>>

\* How a call of _decode_and_show_imu ends.
imu_outcome(packet, throttled) ==
    IF throttled THEN "return"
    ELSE IF Len(packet) # StructSize THEN "pass"
    ELSE "rendered"

\* How a call of _decode_and_log_cmd ends: packet[0] .. packet[3] raise
\* IndexError on fewer than four bytes, and the except clause logs
\* "Erreur Decode CMD"; otherwise the RX line with the value is logged.
cmd_outcome(packet) ==
    IF Len(packet) < 4 THEN "logged_error" ELSE "logged_value"

\* decode_and_log_cmd without the sign correction.
decode_and_log_cmd_unsigned(packet) ==
    LET addr  == BitAnd(packet[1], 127)
        value == BitOr(packet[2], packet[3] * 256)
    IN  <<addr, value>>

\* _decode_and_log_cmd: register and signed 16-bit value.
decode_and_log_cmd(packet) ==
    LET addr  == BitAnd(packet[1], 127)
        value == BitOr(packet[2], packet[3] * 256)
    IN  <<addr, IF value > 32767 THEN value - 65536 ELSE value>>

(***************************************************************************)
(* The reader thread t, _read_serial_loop.  pc[t] is                       *)
(*   none    not started          check   at the while condition           *)
(*   poll    at `if self.ser.in_waiting > 0`                               *)
(*   extend  holding a chunk read from the port, before rx_buffer.extend   *)
(*   loop    in the extraction loop                  done   returned       *)
(***************************************************************************)
Tags(n, port) == [i \in 1..n |-> port]

\* while not self.stop_thread and self.ser and self.ser.is_open
LoopCheck(t) ==
    /\ pc[t] = "check"
    /\ pc' = [pc EXCEPT ![t] = IF ~stop_thread /\ ser # 0 /\ ser_open
                               THEN "poll" ELSE "done"]
    /\ UNCHANGED <<inVars, txVars, fed, wire, connVars, data, accVars, outVars>>

\* in_waiting = n > 0 with the n bytes taken from the device's stream:
\* data = self.ser.read(n); self.rx_buffer.extend(data)
Feed(t, n) ==
    /\ pc[t] = "poll"
    /\ ser_open
    /\ wire = <<>>
    /\ rx_buffer' = rx_buffer \o SubSeq(stream, fed + 1, fed + n)
    /\ rx_sess' = rx_sess \o Tags(n, ser)
    /\ fed' = fed + n
    /\ pc' = [pc EXCEPT ![t] = "loop"]
    /\ UNCHANGED <<inVars, txVars, wire, connVars, data, consumed, outVars>>

\* in_waiting = 0: time.sleep(0.005)
Sleep(t) ==
    /\ pc[t] = "poll"
    /\ ser_open
    /\ wire = <<>>
    /\ pc' = [pc EXCEPT ![t] = "check"]
    /\ UNCHANGED <<inVars, txVars, fed, wire, connVars, data, accVars, outVars>>

\* EmitImu deleting CMD_SIZE bytes after the telemetry handler.
EmitImuDelCmdSize(t) ==
    /\ pc[t] = "loop"
    /\ LET r == Iter(rx_buffer)
       IN  /\ r.act = "emit_imu"
           /\ LET packet  == Take(rx_buffer, IMU_SIZE)
                  decoded == decode_and_show_imu(packet, imu_throttled)
              IN  /\ emitted' = Append(emitted,
                                       [kind |-> "imu", off |-> consumed,
                                        packet |-> packet, decoded |-> decoded,
                                        sess |-> Take(rx_sess, IMU_SIZE),
                                        at |-> ser])
                  /\ imu_throttled' = TRUE
                  /\ txt_imu' = IF decoded = <<>> THEN txt_imu ELSE decoded
           /\ rx_buffer' = Drop(rx_buffer, CMD_SIZE)
           /\ rx_sess' = Drop(rx_sess, CMD_SIZE)
           /\ consumed' = consumed + CMD_SIZE
    /\ UNCHANGED <<inVars, txVars, fed, wire, connVars, pc, data>>

\* A telemetry frame at the head passes its CRC:
\* self._decode_and_show_imu(packet); del self.rx_buffer[:IMU_SIZE]
EmitImu(t) ==
    /\ pc[t] = "loop"
    /\ LET r == Iter(rx_buffer)
       IN  /\ r.act = "emit_imu"
           /\ LET packet  == Take(rx_buffer, IMU_SIZE)
                  decoded == decode_and_show_imu(packet, imu_throttled)
              IN  /\ emitted' = Append(emitted,
                                       [kind |-> "imu", off |-> consumed,
                                        packet |-> packet, decoded |-> decoded,
                                        sess |-> Take(rx_sess, IMU_SIZE),
                                        at |-> ser])
                  /\ imu_throttled' = TRUE
                  /\ txt_imu' = IF decoded = <<>> THEN txt_imu ELSE decoded
           /\ rx_buffer' = Drop(rx_buffer, r.n)
           /\ rx_sess' = Drop(rx_sess, r.n)
           /\ consumed' = consumed + r.n
    /\ UNCHANGED <<inVars, txVars, fed, wire, connVars, pc, data>>

\* A command response at the head passes its CRC:
\* self._decode_and_log_cmd(packet); del self.rx_buffer[:CMD_SIZE]
EmitCmd(t) ==
    /\ pc[t] = "loop"
    /\ LET r == Iter(rx_buffer)
       IN  /\ r.act = "emit_cmd"
           /\ LET packet == Take(rx_buffer, CMD_SIZE)
              IN  emitted' = Append(emitted,
                                   [kind |-> "cmd", off |-> consumed,
                                    packet |-> packet,
                                    decoded |-> decode_and_log_cmd(packet),
                                    sess |-> Take(rx_sess, CMD_SIZE),
                                    at |-> ser])
           /\ rx_buffer' = Drop(rx_buffer, r.n)
           /\ rx_sess' = Drop(rx_sess, r.n)
           /\ consumed' = consumed + r.n
    /\ UNCHANGED <<inVars, txVars, fed, wire, connVars, pc, data, imu_throttled, txt_imu>>

\* DropByte with the delete left out: the loop continues on the same bytes.
DropByteKeeps(t) ==
    /\ pc[t] = "loop"
    /\ Iter(rx_buffer).act = "drop"
    /\ UNCHANGED <<inVars, txVars, fed, wire, connVars, pc, data, accVars, outVars>>

\* Magic or CRC mismatch, or unrecognized leading byte: del self.rx_buffer[:1]
DropByte(t) ==
    /\ pc[t] = "loop"
    /\ LET r == Iter(rx_buffer)
       IN  /\ r.act = "drop"
           /\ rx_buffer' = Drop(rx_buffer, r.n)
           /\ rx_sess' = Drop(rx_sess, r.n)
           /\ consumed' = consumed + r.n
    /\ UNCHANGED <<inVars, txVars, fed, wire, connVars, pc, data, outVars>>

\* LoopExit with a break, instead of continue, after a frame was handled.
LoopExitAfterFrame(t) ==
    /\ pc[t] = "loop"
    /\ \/ Iter(rx_buffer).act = "stop"
       \/ /\ emitted # <<>>
          /\ Last(emitted).off + Len(Last(emitted).packet) = consumed
    /\ pc' = [pc EXCEPT ![t] = "check"]
    /\ UNCHANGED <<inVars, txVars, fed, wire, connVars, data, accVars, outVars>>

\* The accumulator is empty, or a break on a short read: back to the while.
LoopExit(t) ==
    /\ pc[t] = "loop"
    /\ Iter(rx_buffer).act = "stop"
    /\ pc' = [pc EXCEPT ![t] = "check"]
    /\ UNCHANGED <<inVars, txVars, fed, wire, connVars, data, accVars, outVars>>

\* 0.1 s have passed since the last rendered telemetry frame.
Tick ==
    /\ imu_throttled
    /\ imu_throttled' = FALSE
    /\ UNCHANGED <<inVars, txVars, fed, wire, connVars, pc, data, accVars, emitted, txt_imu>>

(***************************************************************************)
(* The command panel after __init__: both entries empty, the switch on     *)
(* WRITE, no heartbeat, nothing written.                                   *)
(***************************************************************************)
TxInit ==
    /\ entry_reg = <<>>
    /\ entry_data = <<>>
    /\ switch_rw = 0
    /\ is_auto_sending = FALSE
    /\ after_pending = 0
    /\ tx = <<>>
    /\ aru = 0

(***************************************************************************)
(* Spec: one connection session and its reader thread, from the moment     *)
(* _toggle_connection has started it; the device's stream reaches the      *)
(* thread in chunks of any size.                                           *)
(***************************************************************************)
Init ==
    /\ segs \in Streams
    /\ stream = Flatten(segs)
    /\ fed = 0
    /\ wire = <<>>
    /\ is_connected = TRUE
    /\ stop_thread = FALSE
    /\ ser = 1
    /\ ser_open = TRUE
    /\ closed = FALSE
    /\ pc = [t \in Threads |-> IF t = 1 THEN "check" ELSE "none"]
    /\ data = [t \in Threads |-> <<>>]
    /\ rx_buffer = <<>>
    /\ rx_sess = <<>>
    /\ consumed = 0
    /\ emitted = <<>>
    /\ imu_throttled = FALSE
    /\ txt_imu = <<>>
    /\ TxInit

Next ==
    \/ LoopCheck(1)
    \/ \E n \in 1..(Len(stream) - fed) : Feed(1, n)
    \/ Sleep(1)
    \/ EmitImu(1)
    \/ EmitCmd(1)
    \/ DropByte(1)
    \/ LoopExit(1)
    \/ Tick

Spec == Init /\ [][Next]_vars

\* A step of the extraction loop: nothing in lines 362-394 blocks, so the
\* reader thread, once scheduled, takes it.
LoopStep == EmitImu(1) \/ EmitCmd(1) \/ DropByte(1) \/ LoopExit(1)

FairSpec == Spec /\ WF_vars(LoopStep)

(***************************************************************************)
(* SpecApp: the application.  The UI thread connects, disconnects and      *)
(* closes the window; every connect starts a reader thread; the device     *)
(* sends its stream one segment at a time into the open port.              *)
(***************************************************************************)
AppStreams == {<<"CMD", "IMU">>, <<"HI", "IMU", "CMD">>}

InitApp ==
    /\ segs \in AppStreams
    /\ stream = Flatten(segs)
    /\ fed = 0
    /\ wire = <<>>
    /\ is_connected = FALSE
    /\ stop_thread = FALSE
    /\ ser = 0
    /\ ser_open = FALSE
    /\ closed = FALSE
    /\ pc = [t \in Threads |-> "none"]
    /\ data = [t \in Threads |-> <<>>]
    /\ rx_buffer = <<>>
    /\ rx_sess = <<>>
    /\ consumed = 0
    /\ emitted = <<>>
    /\ imu_throttled = FALSE
    /\ txt_imu = <<>>
    /\ TxInit

\* _toggle_connection, not connected: open the port, reset the accumulator,
\* clear stop_thread, start a reader thread.
Connect ==
    /\ ~closed
    /\ ~is_connected
    /\ ser < MaxSessions
    /\ ser' = ser + 1
    /\ ser_open' = TRUE
    /\ is_connected' = TRUE
    /\ rx_buffer' = <<>>
    /\ rx_sess' = <<>>
    /\ stop_thread' = FALSE
    /\ pc' = [pc EXCEPT ![ser + 1] = "check"]
    /\ wire' = <<>>
    /\ UNCHANGED <<inVars, txVars, fed, closed, data, consumed, outVars>>

\* _toggle_connection, connected: clear is_auto_sending, set stop_thread,
\* close the port.
Disconnect ==
    /\ ~closed
    /\ is_connected
    /\ stop_thread' = TRUE
    /\ ser_open' = FALSE
    /\ is_connected' = FALSE
    /\ wire' = <<>>
    /\ is_auto_sending' = FALSE
    /\ UNCHANGED <<inVars, entry_reg, entry_data, switch_rw, after_pending, tx, aru>>
    /\ UNCHANGED <<fed, ser, closed, pc, data, accVars, outVars>>

\* on_closing: set stop_thread, clear is_auto_sending, close the port if
\* open, destroy the window.
OnClosing ==
    /\ ~closed
    /\ stop_thread' = TRUE
    /\ ser_open' = FALSE
    /\ closed' = TRUE
    /\ wire' = <<>>
    /\ is_auto_sending' = FALSE
    /\ UNCHANGED <<inVars, entry_reg, entry_data, switch_rw, after_pending, tx, aru>>
    /\ UNCHANGED <<fed, is_connected, ser, pc, data, accVars, outVars>>

\* The device sends its next segment; the open port buffers it.
DeviceSend ==
    /\ ser_open
    /\ fed < Len(stream)
    /\ \E j \in DOMAIN segs :
           /\ SegStartOf(segs, j) = fed
           /\ wire' = wire \o Segment(segs[j])
           /\ fed' = fed + Len(Segment(segs[j]))
    /\ UNCHANGED <<inVars, txVars, connVars, pc, data, accVars, outVars>>

\* in_waiting > 0: data = self.ser.read(self.ser.in_waiting)
ThreadRead(t) ==
    /\ pc[t] = "poll"
    /\ ser_open
    /\ wire # <<>>
    /\ data' = [data EXCEPT ![t] = [bytes |-> wire, port |-> ser]]
    /\ wire' = <<>>
    /\ pc' = [pc EXCEPT ![t] = "extend"]
    /\ UNCHANGED <<inVars, txVars, fed, connVars, accVars, outVars>>

\* self.rx_buffer.extend(data)
ThreadExtend(t) ==
    /\ pc[t] = "extend"
    /\ rx_buffer' = rx_buffer \o data[t].bytes
    /\ rx_sess' = rx_sess \o Tags(Len(data[t].bytes), data[t].port)
    /\ data' = [data EXCEPT ![t] = <<>>]
    /\ pc' = [pc EXCEPT ![t] = "loop"]
    /\ UNCHANGED <<inVars, txVars, fed, wire, connVars, consumed, outVars>>

\* self.ser.in_waiting on a closed port raises; except Exception: break
PollClosed(t) ==
    /\ pc[t] = "poll"
    /\ ~ser_open
    /\ pc' = [pc EXCEPT ![t] = "done"]
    /\ UNCHANGED <<inVars, txVars, fed, wire, connVars, data, accVars, outVars>>

ThreadStep(t) ==
    \/ LoopCheck(t)
    \/ ThreadRead(t)
    \/ ThreadExtend(t)
    \/ Sleep(t)
    \/ PollClosed(t)
    \/ EmitImu(t)
    \/ EmitCmd(t)
    \/ DropByte(t)
    \/ LoopExit(t)

NextApp ==
    \/ Connect
    \/ Disconnect
    \/ OnClosing
    \/ DeviceSend
    \/ Tick
    \/ \E t \in Threads : ThreadStep(t)

SpecApp == InitApp /\ [][NextApp]_vars

\* The interpreter schedules every live thread again and again.
FairSpecApp == SpecApp /\ \A t \in Threads : WF_vars(ThreadStep(t))

(***************************************************************************)
(* The command panel.  Entry texts are sequences of one-character strings. *)
(***************************************************************************)
\* Value of a character as a digit; 99 when it is none.
DigitValue(c) ==
    CASE c = "0" -> 0  [] c = "1" -> 1  [] c = "2" -> 2  [] c = "3" -> 3
      [] c = "4" -> 4  [] c = "5" -> 5  [] c = "6" -> 6  [] c = "7" -> 7
      [] c = "8" -> 8  [] c = "9" -> 9
      [] c \in {"a", "A"} -> 10  [] c \in {"b", "B"} -> 11
      [] c \in {"c", "C"} -> 12  [] c \in {"d", "D"} -> 13
      [] c \in {"e", "E"} -> 14  [] c \in {"f", "F"} -> 15
      [] OTHER -> 99

\* str.strip(): leading and trailing blanks removed.
RECURSIVE Strip(_)
Strip(text) ==
    IF text = <<>> THEN <<>>
    ELSE IF Head(text) = " " THEN Strip(Tail(text))
    ELSE IF Last(text) = " " THEN Strip(Front(text))
    ELSE text

RECURSIVE DigitsValue(_, _, _)
DigitsValue(ds, base, acc) ==
    IF ds = <<>> THEN acc
    ELSE DigitsValue(Tail(ds), base, acc * base + DigitValue(Head(ds)))

\* int(text, base): an optional sign and at least one digit of the base;
\* anything else raises ValueError (ok is FALSE).
ParseInt(text, base) ==
    LET t      == Strip(text)
        signed == t # <<>> /\ Head(t) \in {"-", "+"}
        ds     == IF signed THEN Tail(t) ELSE t
    IN  IF ds = <<>> \/ \E i \in DOMAIN ds : DigitValue(ds[i]) >= base
        THEN [ok |-> FALSE, val |-> 0]
        ELSE [ok |-> TRUE,
              val |-> IF signed /\ Head(t) = "-"
                      THEN 0 - DigitsValue(ds, base, 0)
                      ELSE DigitsValue(ds, base, 0)]

DecChars == <<"0", "1", "2", "3", "4", "5", "6", "7", "8", "9">>

\* str(n) for an integer n.
RECURSIVE FormatNat(_)
FormatNat(n) ==
    IF n < 10 THEN <<DecChars[n + 1]>>
    ELSE Append(FormatNat(n \div 10), DecChars[(n % 10) + 1])

FormatInt(n) == IF n < 0 THEN <<"-">> \o FormatNat(0 - n) ELSE FormatNat(n)

\* x & mask and x >> k on Python integers (unbounded two's complement),
\* for a mask below 2^16.
PyAnd(x, mask) == BitAnd(x % 65536, mask)
PyShr(x, k) == x \div (2 ^ k)

\* EncodeFrame with the high byte of the value kept in a READ frame.
EncodeFrameReadKeepsHigh(addr_in, is_read, data_val) ==
    LET addr    == PyAnd(addr_in, 127)
        hdr     == BitOr(IF is_read THEN 128 ELSE 0, addr)
        d0      == PyAnd(data_val, 255)
        d1      == PyAnd(PyShr(data_val, 8), 255)
        payload == <<hdr, d0, d1>>
    IN  Append(payload, crc8_atm(payload))

\* _send_frame, lines 235-266: the four bytes built from the parsed
\* register, the switch and the parsed value.
EncodeFrame(addr_in, is_read, data_val) ==
    LET addr    == PyAnd(addr_in, 127)
        hdr     == BitOr(IF is_read THEN 128 ELSE 0, addr)
        d0      == PyAnd(data_val, 255)
        d1      == IF is_read THEN 0 ELSE PyAnd(PyShr(data_val, 8), 255)
        payload == <<hdr, d0, d1>>
    IN  Append(payload, crc8_atm(payload))

\* _send_frame with the panel showing reg, dat and rw: what the port has
\* last been written afterwards.  Nothing is written when not connected or
\* when a field does not parse (ValueError).
send_frame(reg, dat, rw, mark) ==
    LET a == ParseInt(reg, 16)
        d == IF Strip(dat) = <<>> THEN [ok |-> TRUE, val |-> 0]
             ELSE ParseInt(dat, 10)
    IN  IF ~is_connected \/ ser = 0 THEN tx
        ELSE IF ~a.ok \/ ~d.ok THEN tx
        ELSE <<[addr_in  |-> a.val,
                is_read  |-> (rw = 1),
                data_val |-> d.val,
                frame    |-> EncodeFrame(a.val, rw = 1, d.val),
                aru      |-> mark]>>

\* _toggle_auto_send with the panel showing reg, dat and rw: the heartbeat
\* flag, the scheduled callbacks and the last written frame afterwards.
\* Switching on runs _auto_send_loop at once: a frame, then self.after.
toggle_auto_send(reg, dat, rw, mark) ==
    IF ~is_connected
    THEN [auto |-> is_auto_sending, pending |-> after_pending, tx |-> tx]
    ELSE IF ~is_auto_sending
    THEN [auto |-> TRUE, pending |-> after_pending + 1,
          tx |-> send_frame(reg, dat, rw, mark)]
    ELSE [auto |-> FALSE, pending |-> after_pending, tx |-> tx]

rxVars == <<fed, wire, pc, data, accVars, outVars>>

\* The user types into the two entries.
SetFields(reg, dat) ==
    /\ ~closed
    /\ entry_reg' = reg
    /\ entry_data' = dat
    /\ aru' = 0
    /\ UNCHANGED <<inVars, connVars, rxVars, switch_rw, is_auto_sending,
                   after_pending, tx>>

\* The user flips the READ/WRITE switch.
ToggleRW ==
    /\ ~closed
    /\ switch_rw' = 1 - switch_rw
    /\ aru' = 0
    /\ UNCHANGED <<inVars, connVars, rxVars, entry_reg, entry_data,
                   is_auto_sending, after_pending, tx>>

\* The ENVOYER button: _send_frame.
SendFrame ==
    /\ ~closed
    /\ tx' = send_frame(entry_reg, entry_data, switch_rw, aru)
    /\ UNCHANGED <<inVars, connVars, rxVars, entry_reg, entry_data,
                   switch_rw, is_auto_sending, after_pending, aru>>

\* The Heart Beat button: _toggle_auto_send.
ToggleAutoSend ==
    /\ ~closed
    /\ LET r == toggle_auto_send(entry_reg, entry_data, switch_rw, aru)
       IN  /\ r.pending <= MaxPending
           /\ is_auto_sending' = r.auto
           /\ after_pending' = r.pending
           /\ tx' = r.tx
    /\ aru' = 0
    /\ UNCHANGED <<inVars, connVars, rxVars, entry_reg, entry_data,
                   switch_rw>>

\* A scheduled callback fires: _auto_send_loop.
AutoSendLoop ==
    /\ ~closed
    /\ after_pending > 0
    /\ IF is_auto_sending /\ is_connected
       THEN /\ tx' = send_frame(entry_reg, entry_data, switch_rw, aru)
            /\ UNCHANGED <<is_auto_sending, after_pending>>
       ELSE /\ is_auto_sending' = FALSE
            /\ after_pending' = after_pending - 1
            /\ UNCHANGED tx
    /\ UNCHANGED <<inVars, connVars, rxVars, entry_reg, entry_data,
                   switch_rw, aru>>

\* _on_servo_slide / _on_motor_slide: register "00" or "01", the value as
\* text, the switch forced to WRITE, the heartbeat switched on if it is off.
Slide(reg, value) ==
    /\ ~closed
    /\ LET dat == FormatInt(value)
           r   == IF ~is_auto_sending
                  THEN toggle_auto_send(reg, dat, 0, 0)
                  ELSE [auto |-> is_auto_sending, pending |-> after_pending,
                        tx |-> tx]
       IN  /\ r.pending <= MaxPending
           /\ entry_reg' = reg
           /\ entry_data' = dat
           /\ switch_rw' = 0
           /\ is_auto_sending' = r.auto
           /\ after_pending' = r.pending
           /\ tx' = r.tx
    /\ aru' = 0
    /\ UNCHANGED <<inVars, connVars, rxVars>>

OnServoSlide(value) == Slide(<<"0", "0">>, value)

OnMotorSlide(value) == Slide(<<"0", "1">>, value)

\* _emergency_stop: register "01", value "0", the heartbeat switched on if
\* it is off.  The switch is left as it is.
EmergencyStop ==
    /\ ~closed
    /\ LET reg == <<"0", "1">>
           dat == <<"0">>
           r   == IF ~is_auto_sending
                  THEN toggle_auto_send(reg, dat, switch_rw,
                                        IF is_connected THEN ser ELSE 0)
                  ELSE [auto |-> is_auto_sending, pending |-> after_pending,
                        tx |-> tx]
       IN  /\ r.pending <= MaxPending
           /\ entry_reg' = reg
           /\ entry_data' = dat
           /\ is_auto_sending' = r.auto
           /\ after_pending' = r.pending
           /\ tx' = r.tx
    /\ aru' = IF is_connected THEN ser ELSE 0
    /\ UNCHANGED <<inVars, connVars, rxVars, switch_rw>>

(***************************************************************************)
(* SpecTx: the command panel.  The user connects and disconnects, types    *)
(* register and value texts, flips the switch, moves the sliders, presses  *)
(* ENVOYER, Heart Beat and ARU; scheduled heartbeat callbacks fire.        *)
(***************************************************************************)
\* Register and value texts the user types: in range, out of range
\* (masked), negative, blank-padded, empty and malformed.
FieldChoices ==
    { <<<<"0", "1">>, <<"-", "5", "0", "0">>>>,
      <<<<"7", "F">>, <<"3", "2", "7", "6", "7">>>>,
      <<<<"f", "f">>, <<"-", "3", "2", "7", "6", "8">>>>,
      <<<<"1", "8", "1">>, <<"7", "0", "0", "0", "0">>>>,
      <<<<"-", "1">>, <<"-", "1">>>>,
      <<<<" ", "5", "5">>, <<"6", "5", "5", "3", "5", " ">>>>,
      <<<<"0", "0">>, <<>>>>,
      <<<<>>, <<"5">>>>,
      <<<<"0", "2">>, <<"1", "f">>>> }

ServoAngles == {-20, 7}
MotorSpeeds == {-1000, 250}

InitTx ==
    /\ segs = <<>>
    /\ stream = <<>>
    /\ fed = 0
    /\ wire = <<>>
    /\ is_connected = FALSE
    /\ stop_thread = FALSE
    /\ ser = 0
    /\ ser_open = FALSE
    /\ closed = FALSE
    /\ pc = [t \in Threads |-> "none"]
    /\ data = [t \in Threads |-> <<>>]
    /\ rx_buffer = <<>>
    /\ rx_sess = <<>>
    /\ consumed = 0
    /\ emitted = <<>>
    /\ imu_throttled = FALSE
    /\ txt_imu = <<>>
    /\ TxInit

NextTx ==
    \/ Connect
    \/ Disconnect
    \/ \E c \in FieldChoices : SetFields(c[1], c[2])
    \/ ToggleRW
    \/ SendFrame
    \/ ToggleAutoSend
    \/ AutoSendLoop
    \/ \E v \in ServoAngles : OnServoSlide(v)
    \/ \E v \in MotorSpeeds : OnMotorSlide(v)
    \/ EmergencyStop

SpecTx == InitTx /\ [][NextTx]_vars

(***************************************************************************)
(* SpecCases: one connection session fed a single test stream in chunks    *)
(* of any size.  segs holds the one case the stream is built from:         *)
(*   roundtrip  the response frame for register r and value v              *)
(*   flip       frame with bit `bit` of its body (all but the CRC byte)    *)
(*              flipped and the CRC byte unchanged                         *)
(*   plain      frame as it is                                             *)
(***************************************************************************)
RtRegs == {0, 1, 85, 127}
RtValues == {-32768, -500, -1, 0, 1, 255, 256, 32767}

\* frame with bit k (0 is the least significant bit of the first byte)
\* flipped.
FlipBit(frame, k) ==
    [i \in DOMAIN frame |->
        IF i = (k \div 8) + 1 THEN BitXor(frame[i], 2 ^ (k % 8)) ELSE frame[i]]

FlipFrames == {SegImu, SegCmd, SegCmd55, CmdFrame(127, 32767)}

RtCases ==
    {[test |-> "roundtrip", r |-> r, v |-> v] : r \in RtRegs, v \in RtValues}

FlipCases ==
    UNION {{[test |-> "flip", frame |-> f, bit |-> k] :
                k \in 0..(8 * (Len(f) - 1) - 1)} : f \in FlipFrames}

PlainCases ==
    {[test |-> "plain", frame |-> f] :
        f \in {SegImu \o SegImu, <<0, 0, 0, 0>>, <<1, 7, 0, 0>>, <<>>}}

CaseStream(c) ==
    CASE c.test = "roundtrip" -> CmdFrame(c.r, c.v)
      [] c.test = "flip"      -> FlipBit(c.frame, c.bit)
      [] c.test = "plain"     -> c.frame

InitCases ==
    /\ segs \in {<<c>> : c \in RtCases \cup FlipCases \cup PlainCases}
    /\ stream = CaseStream(segs[1])
    /\ fed = 0
    /\ wire = <<>>
    /\ is_connected = TRUE
    /\ stop_thread = FALSE
    /\ ser = 1
    /\ ser_open = TRUE
    /\ closed = FALSE
    /\ pc = [t \in Threads |-> IF t = 1 THEN "check" ELSE "none"]
    /\ data = [t \in Threads |-> <<>>]
    /\ rx_buffer = <<>>
    /\ rx_sess = <<>>
    /\ consumed = 0
    /\ emitted = <<>>
    /\ imu_throttled = FALSE
    /\ txt_imu = <<>>
    /\ TxInit

SpecCases == InitCases /\ [][Next]_vars

(***************************************************************************)
(* SpecDecode: the two handlers called directly with byte strings of any   *)
(* length.  Each call is appended to emitted with how it ended.            *)
(***************************************************************************)
DecodePackets ==
    {<<>>, <<1, 12, 254>>, SegCmd, SegCmd \o <<0>>,
     Front(SegImu), SegImu, SegImu \o <<0>>}

DecodeImuCall(packet) ==
    /\ Len(emitted) < MaxCalls
    /\ LET decoded == decode_and_show_imu(packet, imu_throttled)
       IN  /\ emitted' = Append(emitted,
                                [kind |-> "imu", off |-> 0, packet |-> packet,
                                 decoded |-> decoded, sess |-> <<>>, at |-> ser,
                                 outcome |-> imu_outcome(packet, imu_throttled)])
           /\ imu_throttled' = TRUE
           /\ txt_imu' = IF decoded = <<>> THEN txt_imu ELSE decoded
    /\ UNCHANGED <<inVars, txVars, fed, wire, connVars, pc, data, accVars>>

DecodeCmdCall(packet) ==
    /\ Len(emitted) < MaxCalls
    /\ emitted' = Append(emitted,
                         [kind |-> "cmd", off |-> 0, packet |-> packet,
                          decoded |-> IF cmd_outcome(packet) = "logged_value"
                                      THEN decode_and_log_cmd(packet) ELSE <<>>,
                          sess |-> <<>>, at |-> ser,
                          outcome |-> cmd_outcome(packet)])
    /\ UNCHANGED <<inVars, txVars, fed, wire, connVars, pc, data, accVars,
                   imu_throttled, txt_imu>>

InitDecode == InitTx

NextDecode ==
    \/ \E p \in DecodePackets : DecodeImuCall(p)
    \/ \E p \in DecodePackets : DecodeCmdCall(p)
    \/ Tick

SpecDecode == InitDecode /\ [][NextDecode]_vars




(***************************************************************************)
(* The extraction loop run to its end on accumulator buf whose first byte  *)
(* is at stream offset off: the frames handed to the handlers and the      *)
(* bytes left.                                                             *)
(***************************************************************************)
RECURSIVE RunFrom(_, _, _)
RunFrom(buf, off, out) ==
    LET r == Iter(buf)
    IN  IF r.act = "stop" THEN [frames |-> out, rest |-> buf]
        ELSE RunFrom(Drop(buf, r.n), off + r.n,
                     IF r.act = "drop" THEN out
                     ELSE Append(out, [off |-> off, packet |-> Take(buf, r.n)]))

RunLoop(buf) == RunFrom(buf, 0, <<>>)

(***************************************************************************)
(* Vocabulary of the properties.                                           *)
(***************************************************************************)
ValidIds == {"CMD", "CMD55", "IMU"}
CorruptIds == {"BAD_TV", "BAD_FF"}

\* Stream offset of segment j, and of the byte after it.
SegStart(j) == Len(Flatten(Take(segs, j - 1)))
SegEnd(j) == Len(Flatten(Take(segs, j)))

\* The frames handed to the handlers, without what the handlers made of them.
Frames(log) == [i \in DOMAIN log |-> [off |-> log[i].off, packet |-> log[i].packet]]

\* The reader of the session is outside the extraction loop.
FeedDone == pc[1] \in {"check", "poll"}

\* A frame shape the protocol knows and a CRC that matches.
WellFormed(p) ==
    /\ \/ Len(p) = 37 /\ p[1] = 170 /\ p[2] = 85
       \/ Len(p) = 4 /\ p[1] < 128
    /\ Last(p) = crc8_atm(Front(p))

\* Offset k (from 0) of byte sequence s starts a false frame: a candidate
\* that is accepted, or that is still waiting for bytes at the end of s.
FalseStart(s, k) ==
    LET b == s[k + 1]
    IN  IF b = 170
        THEN /\ k + 2 <= Len(s)
             /\ s[k + 2] = 85
             /\ \/ k + 37 > Len(s)
                \/ crc8_atm(SubSeq(s, k + 1, k + 36)) = s[k + 37]
        ELSE IF b < 128
        THEN \/ k + 4 > Len(s)
             \/ crc8_atm(SubSeq(s, k + 1, k + 3)) = s[k + 4]
        ELSE FALSE

\* Number of bytes the candidate starting with byte b claims.
CandidateSize(b) == IF b = 170 THEN 37 ELSE IF b < 128 THEN 4 ELSE 1

(***************************************************************************)
(* C1: every frame the parser emits is a 37-byte frame beginning 0xAA 0x55 *)
(* or a 4-byte frame whose first byte has bit 7 clear, and its last byte   *)
(* is the crc8 of the bytes before it, whatever the stream and chunking.   *)
(***************************************************************************)
C1_EmittedFramesValid ==
    \A i \in DOMAIN emitted : WellFormed(emitted[i].packet)

C1_Witness ==
    /\ \E i \in DOMAIN emitted : Len(emitted[i].packet) = 37
    /\ \E i \in DOMAIN emitted : Len(emitted[i].packet) = 4
    /\ \E j \in DOMAIN segs : segs[j] \in CorruptIds


(***************************************************************************)
(* C2 (as stated): a 37-byte telemetry frame with its CRC byte flipped,    *)
(* followed at once by a valid frame, fed to an empty parser: no frame is  *)
(* emitted from the corrupted 37 bytes, and the valid frame is emitted     *)
(* once its bytes are in, for every payload of the corrupted frame.        *)
(***************************************************************************)
CorruptThenValid ==
    /\ Len(segs) >= 2
    /\ segs[1] \in CorruptIds
    /\ segs[2] \in ValidIds

RecoversAfterCorruptFrame ==
    /\ \A i \in DOMAIN emitted : emitted[i].off >= IMU_SIZE
    /\ (FeedDone /\ fed >= SegEnd(2)) =>
           \E i \in DOMAIN emitted : /\ emitted[i].off = IMU_SIZE
                                     /\ emitted[i].packet = Segment(segs[2])

C2_Original == CorruptThenValid => RecoversAfterCorruptFrame

(***************************************************************************)
(* C2 (amended): the same, for every payload for which no byte after the   *)
(* first of the corrupted frame starts a false frame, that is a 4-byte     *)
(* window with bit 7 of its first byte clear and a matching CRC, or a      *)
(* window beginning 0xAA 0x55 whose CRC matches or whose 37 bytes are not  *)
(* all there.                                                              *)
(***************************************************************************)
NoFalseStartInRun ==
    LET s == Segment(segs[1]) \o Segment(segs[2])
    IN  \A k \in 1..(IMU_SIZE - 1) : ~FalseStart(s, k)

C2_Amended == (CorruptThenValid /\ NoFalseStartInRun) => RecoversAfterCorruptFrame

C2_Witness ==
    /\ CorruptThenValid
    /\ NoFalseStartInRun
    /\ FeedDone
    /\ fed = Len(stream)
    /\ \E i \in DOMAIN emitted : /\ emitted[i].off = IMU_SIZE
                                 /\ emitted[i].packet = Segment(segs[2])

(***************************************************************************)
(* C3: N garbage bytes, none of which can start a frame (bit 7 set and not *)
(* 0xAA), followed by a valid 4-byte command response, fed to an empty     *)
(* parser in any chunking: exactly that one frame is emitted and the       *)
(* accumulator ends empty.                                                 *)
(***************************************************************************)
GarbageByte(b) == b >= 128 /\ b # 170

GarbageThenCmd ==
    /\ Len(segs) >= 1
    /\ segs[Len(segs)] \in {"CMD", "CMD55"}
    /\ \A j \in 1..(Len(segs) - 1) :
           /\ Len(Segment(segs[j])) = 1
           /\ GarbageByte(Segment(segs[j])[1])

C3_Resync ==
    GarbageThenCmd =>
        /\ Len(emitted) <= 1
        /\ \A i \in DOMAIN emitted :
               /\ emitted[i].off = Len(segs) - 1
               /\ emitted[i].packet = Segment(segs[Len(segs)])
        /\ (FeedDone /\ fed = Len(stream)) =>
               /\ Len(emitted) = 1
               /\ rx_buffer = <<>>
               /\ consumed = Len(stream)

C3_Witness ==
    /\ segs = GarbageRun(MaxGarbage) \o <<"CMD">>
    /\ FeedDone
    /\ fed = Len(stream)
    /\ Len(emitted) = 1
    /\ rx_buffer = <<>>

(***************************************************************************)
(* C4 (as stated): whatever bytes came before it, once all bytes of a      *)
(* complete valid frame have been fed, the frame has been emitted by the   *)
(* end of the feed call that delivered its last byte.                      *)
(***************************************************************************)
EmittedAt(j) ==
    \E i \in DOMAIN emitted : /\ emitted[i].off = SegStart(j)
                              /\ emitted[i].packet = Segment(segs[j])

C4_Original ==
    \A j \in DOMAIN segs :
        (segs[j] \in ValidIds /\ FeedDone /\ fed >= SegEnd(j)) => EmittedAt(j)

(***************************************************************************)
(* C4 (amended): the same, provided no false frame that starts in the      *)
(* prefix reaches into the frame: every window that starts before the      *)
(* frame with a bit-7-clear byte or with 0xAA 0x55 and overlaps the frame  *)
(* is complete when the frame's last byte arrives and fails its CRC.       *)
(***************************************************************************)
NoFalseOverlap(j) ==
    LET P == SegStart(j)
        s == Take(stream, SegEnd(j))
    IN  \A k \in 0..(P - 1) :
            FalseStart(s, k) => k + CandidateSize(s[k + 1]) <= P

C4_Amended ==
    \A j \in DOMAIN segs :
        (segs[j] \in ValidIds /\ FeedDone /\ fed >= SegEnd(j) /\ NoFalseOverlap(j))
            => EmittedAt(j)

C4_Witness ==
    /\ Len(segs) >= 2
    /\ segs[1] \in CorruptIds
    /\ segs[2] \in ValidIds
    /\ NoFalseOverlap(2)
    /\ FeedDone
    /\ fed = SegEnd(2)
    /\ EmittedAt(2)

(***************************************************************************)
(* C5: chunking invariance.  Whenever a feed call has returned, the frames *)
(* emitted so far and the accumulator are those of feeding all the bytes   *)
(* received so far in one call, however they were split into chunks.       *)
(***************************************************************************)
C5_ChunkingInvariance ==
    FeedDone =>
        LET r == RunLoop(Take(stream, fed))
        IN  /\ Frames(emitted) = r.frames
            /\ rx_buffer = r.rest

\* A telemetry frame split across feed calls, after an earlier emission.
C5_Witness ==
    /\ FeedDone
    /\ emitted # <<>>
    /\ Len(rx_buffer) = IMU_SIZE - 1
    /\ fed < Len(stream)

(***************************************************************************)
(* C6: the empty feed.  Whenever a feed call has returned, the extraction  *)
(* loop is at a fixed point: run again on the accumulator with no byte     *)
(* added, it emits nothing and leaves the accumulator as it is.            *)
(***************************************************************************)
C6_EmptyFeedIdempotent ==
    FeedDone => RunLoop(rx_buffer \o <<>>) = [frames |-> <<>>, rest |-> rx_buffer]

C6_Witness ==
    /\ FeedDone
    /\ emitted # <<>>
    /\ rx_buffer # <<>>
    /\ fed = Len(stream)

(***************************************************************************)
(* C7: arrival order.  The emitted frames are contiguous segments of the   *)
(* inbound stream, pairwise disjoint, in strictly increasing offset, each  *)
(* taken from the accumulator head, telemetry and command frames mixed in  *)
(* the order they were detected.                                           *)
(***************************************************************************)
C7_ArrivalOrder ==
    \A i \in DOMAIN emitted :
        LET e == emitted[i]
        IN  /\ e.packet = SubSeq(stream, e.off + 1, e.off + Len(e.packet))
            /\ e.off + Len(e.packet) <= consumed
            /\ i > 1 => emitted[i - 1].off + Len(emitted[i - 1].packet) <= e.off
            /\ e.kind = "imu" <=> Len(e.packet) = IMU_SIZE
            /\ e.kind = "cmd" <=> Len(e.packet) = CMD_SIZE

C7_Witness ==
    \E i \in DOMAIN emitted :
        /\ i > 1
        /\ emitted[i - 1].kind = "imu"
        /\ emitted[i].kind = "cmd"
        /\ emitted[i].off = emitted[i - 1].off + IMU_SIZE

(***************************************************************************)
(* C8 (as stated): every 37-byte frame that passes the CRC check is        *)
(* decoded and delivered, however little time has passed since the         *)
(* previous telemetry frame.                                               *)
(***************************************************************************)
C8_Original ==
    \A i \in DOMAIN emitted :
        emitted[i].kind = "imu" =>
            emitted[i].decoded = <<UnpackTimestamp(emitted[i].packet)>>

(***************************************************************************)
(* C8 (amended): the parser never drops or buffers a validated telemetry   *)
(* frame: whenever a 37-byte frame with a matching CRC is at the head of   *)
(* the accumulator, the step that changes the accumulator hands exactly    *)
(* that frame to _decode_and_show_imu and removes it; the handler decodes  *)
(* and renders it only when at least 0.1 s have passed since the last      *)
(* rendered frame, and otherwise discards it undecoded.                    *)
(***************************************************************************)
ValidImuAtHead ==
    /\ pc[1] = "loop"
    /\ Len(rx_buffer) >= IMU_SIZE
    /\ WellFormed(Take(rx_buffer, IMU_SIZE))

C8_Amended ==
    [][(ValidImuAtHead /\ rx_buffer' # rx_buffer) =>
          LET packet == Take(rx_buffer, IMU_SIZE)
          IN  /\ rx_buffer' = Drop(rx_buffer, IMU_SIZE)
              /\ Len(emitted') = Len(emitted) + 1
              /\ Last(emitted').kind = "imu"
              /\ Last(emitted').packet = packet
              /\ Last(emitted').decoded =
                     (IF imu_throttled THEN <<>> ELSE <<UnpackTimestamp(packet)>>)
              /\ txt_imu' =
                     (IF imu_throttled THEN txt_imu ELSE <<UnpackTimestamp(packet)>>)
       ]_vars

\* Two validated telemetry frames: the first rendered, the second throttled.
C8_Witness ==
    \E i \in DOMAIN emitted :
        /\ i > 1
        /\ emitted[i - 1].kind = "imu" /\ emitted[i - 1].decoded # <<>>
        /\ emitted[i].kind = "imu" /\ emitted[i].decoded = <<>>


(***************************************************************************)
(* C9: reconnecting resets the parser state.  After any sequence of        *)
(* connects and disconnects interleaved with the reader threads, every     *)
(* byte in the accumulator was read from the port of the current session,  *)
(* and every frame handed to a handler is made of bytes read during the    *)
(* session in which it is emitted.                                         *)
(***************************************************************************)
C9_ReconnectResets ==
    /\ \A i \in DOMAIN rx_sess : rx_sess[i] = ser
    /\ \A i \in DOMAIN emitted :
           \A k \in DOMAIN emitted[i].sess : emitted[i].sess[k] = emitted[i].at

(***************************************************************************)
(* C10: cancellation.  Once the port of a session has been closed, by a    *)
(* disconnect or by closing the window, the reader thread started for      *)
(* that session eventually returns, whatever the user does next.           *)
(***************************************************************************)
SessionClosed(t) == pc[t] # "none" /\ (ser > t \/ (ser = t /\ ~ser_open))

C10_CancelTerminates ==
    \A t \in Threads : SessionClosed(t) ~> (pc[t] = "done")

(***************************************************************************)
(* C11  Frame encoding.  Every frame written to the port is four bytes     *)
(* [header, byte0, byte1, crc] with header = (0x80 if read else 0x00) |    *)
(* (register & 0x7F), byte0 = value & 0xFF, byte1 = 0 for a read and the   *)
(* high byte of the value's 16-bit two's complement for a write, and crc   *)
(* the CRC-8 of the first three, for every parsed register and value; out  *)
(* of range ones are masked, not rejected.                                 *)
(***************************************************************************)
\* The 16-bit two's complement of the low 16 bits of v.
U16(v) == ((v % 65536) + 65536) % 65536

ExpectedFrame(register, read, value) ==
    LET header == (IF read THEN 128 ELSE 0) + (register % 128)
        byte0  == U16(value) % 256
        byte1  == IF read THEN 0 ELSE U16(value) \div 256
    IN  <<header, byte0, byte1, crc8_atm(<<header, byte0, byte1>>)>>

C11_FrameEncoding ==
    tx # <<>> =>
        /\ Len(tx[1].frame) = 4
        /\ tx[1].frame = ExpectedFrame(tx[1].addr_in, tx[1].is_read, tx[1].data_val)

\* A WRITE of the out-of-range value 70000 to the out-of-range register
\* 0x181 has been sent, masked to register 1 and value 0x1170.
C11_Witness ==
    /\ tx # <<>>
    /\ tx[1].addr_in = 385
    /\ tx[1].data_val = 70000
    /\ ~tx[1].is_read
    /\ SubSeq(tx[1].frame, 1, 3) = <<1, 112, 17>>

(***************************************************************************)
(* C12  Command-response round trip.  For a register r in 0..127 and a     *)
(* signed 16-bit value v, the response [r, low byte, high byte, crc8] fed  *)
(* to an empty parser in any chunking is emitted as exactly one            *)
(* command-response frame, decoded as register r and value v: nothing is   *)
(* emitted before its last byte has arrived, and once the feed call that   *)
(* delivered it has returned the one frame is there and the accumulator    *)
(* is empty.                                                               *)
(***************************************************************************)
C12_RoundTrip ==
    segs[1].test = "roundtrip" =>
        /\ Len(emitted) <= 1
        /\ fed < Len(stream) => emitted = <<>>
        /\ \A i \in DOMAIN emitted :
               /\ emitted[i].kind = "cmd"
               /\ emitted[i].packet = stream
               /\ emitted[i].decoded = <<segs[1].r, segs[1].v>>
        /\ (fed = Len(stream) /\ FeedDone) =>
               (Len(emitted) = 1 /\ rx_buffer = <<>>)

\* The response for register 0x01 and value -500 has been decoded.
C12_Witness ==
    /\ segs[1].test = "roundtrip"
    /\ segs[1].r = 1
    /\ segs[1].v = -500
    /\ Len(emitted) = 1
    /\ emitted[1].decoded = <<1, -500>>
    /\ stream = <<1, 12, 254, 99>>

(***************************************************************************)
(* C13  Decoder contract violation.  A handler call ends in an explicit    *)
(* decode error exactly when its packet has the wrong length (not 37       *)
(* bytes for telemetry, not 4 bytes for a command response): such a call   *)
(* is never silently ignored and never decodes a value, and no call with   *)
(* the right length fails.  The logged "Erreur Decode CMD" line is taken   *)
(* as the explicit error.                                                  *)
(***************************************************************************)
C13_DecoderLengthErrors ==
    \A i \in DOMAIN emitted :
        LET e    == emitted[i]
            size == IF e.kind = "imu" THEN IMU_SIZE ELSE CMD_SIZE
        IN  (Len(e.packet) # size) <=> (e.outcome = "logged_error")

(***************************************************************************)
(* C14  crc8 is the CRC-8 with polynomial 0x07 (x^8 + x^2 + x + 1),        *)
(* initial value 0, most significant bit first, no reflection and no final *)
(* XOR: the remainder of the message polynomial times x^8 modulo the       *)
(* generator.  Whenever the reader holds a full candidate at the head of   *)
(* the accumulator and computes the CRC of its body, the result is that    *)
(* remainder and lies in 0..255; and crc8([]) = 0, crc8([0,0,0]) = 0,      *)
(* crc8([1]) = 7.                                                          *)
(***************************************************************************)
\* A polynomial over GF(2) is the set of its exponents.
PolyAdd(p, q) == (p \ q) \cup (q \ p)

\* x^s modulo the generator x^8 + x^2 + x + 1 for s up to 14:
\* x^8 = x^2 + x + 1, hence x^(8+d) = x^(d+2) + x^(d+1) + x^d for d < 6,
\* and x^14 = x^8 + x^7 + x^6 = x^7 + x^6 + x^2 + x + 1.
LowPow(s) ==
    IF s < 8 THEN {s}
    ELSE IF s < 14 THEN {s - 8, s - 7, s - 6}
    ELSE {0, 1, 2, 6, 7}

\* p * q modulo the generator, for p and q of degree below 8: x^k is left
\* when an odd number of the products of their terms leave it.
MulMod(p, q) ==
    {k \in 0..7 :
        Cardinality({t \in p \X q : k \in LowPow(t[1] + t[2])}) % 2 = 1}

\* x^e modulo the generator.
RECURSIVE XPow(_)
XPow(e) ==
    IF e < 8 THEN {e}
    ELSE IF e % 2 = 0 THEN LET h == XPow(e \div 2) IN MulMod(h, h)
    ELSE MulMod(XPow(e - 1), {1})

XPowTable == [e \in 0..(8 * (IMU_SIZE - 1) + 7) |-> XPow(e)]

\* The exponents of the message polynomial of bs, first byte and top bit
\* leading, times x^8.
MessagePoly(bs) ==
    UNION {{8 * (Len(bs) - i) + j + 8 :
                j \in {k \in 0..7 : (bs[i] \div (2 ^ k)) % 2 = 1}} :
              i \in DOMAIN bs}

\* The remainder, as a number: bit k is set when an odd number of the
\* message's terms leave x^k.
Crc8Reference(bs) ==
    LET m == MessagePoly(bs)
        bit(k) == Cardinality({e \in m : k \in XPowTable[e]}) % 2
    IN  bit(0) + 2 * bit(1) + 4 * bit(2) + 8 * bit(3)
        + 16 * bit(4) + 32 * bit(5) + 64 * bit(6) + 128 * bit(7)

CrcAgrees(bs) == crc8_atm(bs) \in 0..255 /\ crc8_atm(bs) = Crc8Reference(bs)

C14_Crc8Definition ==
    /\ crc8_atm(<<>>) = 0
    /\ crc8_atm(<<0, 0, 0>>) = 0
    /\ crc8_atm(<<1>>) = 7
    /\ (pc[1] = "loop" /\ rx_buffer # <<>>) =>
           LET size == CandidateSize(rx_buffer[1])
           IN  Len(rx_buffer) >= size => CrcAgrees(Take(rx_buffer, size - 1))

\* The reader holds a complete 37-byte telemetry candidate whose body has
\* the CRC carried in its last byte.
C14_Witness ==
    /\ pc[1] = "loop"
    /\ Len(rx_buffer) >= IMU_SIZE
    /\ Iter(rx_buffer).act = "emit_imu"
    /\ Crc8Reference(Take(rx_buffer, IMU_SIZE - 1)) = rx_buffer[IMU_SIZE]

(***************************************************************************)
(* C15  Single-bit sensitivity of crc8.  For a frame body of 3 or 36       *)
(* bytes and any one bit of it, the body with that bit flipped has a       *)
(* different crc8; so the frame with that one bit flipped and its CRC byte *)
(* unchanged fails the CRC comparison and is never emitted by the parser   *)
(* as a frame.                                                             *)
(***************************************************************************)
C15_SingleBitSensitivity ==
    segs[1].test = "flip" =>
        /\ Len(stream) \in {CMD_SIZE, IMU_SIZE}
        /\ Last(stream) = Last(segs[1].frame)
        /\ crc8_atm(Front(stream)) # crc8_atm(Front(segs[1].frame))
        /\ crc8_atm(Front(stream)) # Last(stream)
        /\ \A i \in DOMAIN emitted :
               ~(emitted[i].off = 0 /\ emitted[i].packet = stream)

\* The telemetry frame with bit 3 of its ninth byte flipped has been read
\* completely and the extraction loop has returned without accepting it.
C15_Witness ==
    /\ segs[1].test = "flip"
    /\ segs[1].frame = SegImu
    /\ segs[1].bit = 67
    /\ fed = IMU_SIZE
    /\ FeedDone
    /\ consumed > 0

(***************************************************************************)
(* C16  Rejection steps.  When the accumulator begins with 0xAA not        *)
(* followed by 0x55, with a complete 37-byte telemetry candidate whose CRC *)
(* does not match, with a complete 4-byte command candidate whose CRC does *)
(* not match, or with a byte that has bit 7 set and is not 0xAA, the       *)
(* reader's next step removes exactly the first byte, leaves the remaining *)
(* bytes unchanged and in order, and emits nothing; a false 0xAA drops     *)
(* only itself.                                                            *)
(***************************************************************************)
RejectReason(buf) ==
    IF buf = <<>> THEN "none"
    ELSE IF buf[1] = 170 /\ Len(buf) >= 2 /\ buf[2] # 85 THEN "magic"
    ELSE IF /\ buf[1] = 170 /\ Len(buf) >= 37 /\ buf[2] = 85
            /\ crc8_atm(SubSeq(buf, 1, 36)) # buf[37] THEN "imu_crc"
    ELSE IF /\ buf[1] < 128 /\ Len(buf) >= 4
            /\ crc8_atm(SubSeq(buf, 1, 3)) # buf[4] THEN "cmd_crc"
    ELSE IF buf[1] >= 128 /\ buf[1] # 170 THEN "unknown"
    ELSE "none"

ReaderMoves == <<pc, rx_buffer, consumed, emitted>>' # <<pc, rx_buffer, consumed, emitted>>

C16_RejectionDropsOneByte ==
    [][(pc[1] = "loop" /\ RejectReason(rx_buffer) # "none" /\ ReaderMoves) =>
          /\ rx_buffer' = Tail(rx_buffer)
          /\ consumed' = consumed + 1
          /\ emitted' = emitted
          /\ pc' = pc]_vars

\* A false 0xAA in front of a response frame has been dropped alone: the
\* frame's four bytes are what is left.
C16_Witness ==
    /\ segs = <<"AA", "CMD">>
    /\ fed = 5
    /\ consumed = 1
    /\ rx_buffer = SegCmd
    /\ emitted = <<>>

(***************************************************************************)
(* C17  Every feed call terminates.  In the extraction loop the reader     *)
(* always has a step to take (it never waits for bytes that have not       *)
(* arrived), and each step either leaves the loop, with the accumulator    *)
(* untouched and either empty or too short for a decision, or shortens the *)
(* accumulator by exactly 1, 4 or 37 bytes; so the iterations still to     *)
(* come never outnumber the bytes in the accumulator, and a reader that    *)
(* keeps being scheduled leaves the loop.                                  *)
(***************************************************************************)
\* The accumulator is too short to decide on its head.
Insufficient(buf) ==
    /\ buf # <<>>
    /\ \/ buf[1] = 170 /\ Len(buf) < 2
       \/ buf[1] = 170 /\ Len(buf) >= 2 /\ buf[2] = 85 /\ Len(buf) < 37
       \/ buf[1] < 128 /\ Len(buf) < 4

\* Iterations of the extraction loop on buf that delete bytes.
RECURSIVE IterationsLeft(_)
IterationsLeft(buf) ==
    LET r == Iter(buf)
    IN  IF r.act = "stop" THEN 0 ELSE 1 + IterationsLeft(Drop(buf, r.n))

C17_FeedTerminates ==
    /\ (pc[1] = "loop") ~> (pc[1] = "check")
    /\ [](pc[1] = "loop" =>
            /\ ENABLED LoopStep
            /\ IterationsLeft(rx_buffer) <= Len(rx_buffer))
    /\ [][(pc[1] = "loop" /\ ReaderMoves) =>
            \/ /\ pc'[1] = "check"
               /\ rx_buffer' = rx_buffer
               /\ rx_buffer = <<>> \/ Insufficient(rx_buffer)
            \/ /\ pc' = pc
               /\ Len(rx_buffer) - Len(rx_buffer') \in {1, 4, 37}
               /\ rx_buffer' = Drop(rx_buffer, Len(rx_buffer) - Len(rx_buffer'))]_vars

\* A chunk holding a corrupted telemetry frame and a valid response has
\* been worked through byte by byte: the loop has dropped 37 bytes, emitted
\* the response and returned with an empty accumulator.
C17_Witness ==
    /\ segs = <<"BAD_FF", "CMD">>
    /\ fed = Len(stream)
    /\ pc[1] = "check"
    /\ rx_buffer = <<>>
    /\ consumed = Len(stream)
    /\ Len(emitted) = 1

(***************************************************************************)
(* C18  Emergency stop.  Once the emergency stop has run while connected,  *)
(* and for as long as the user has not touched the panel again, the        *)
(* heartbeat is active and every frame written to the port is the motor    *)
(* cut-off command, a WRITE (header bit 7 clear) of value 0 to register    *)
(* 0x01, whatever the switch, the fields and the heartbeat were before.    *)
(***************************************************************************)
CutOffFrame == <<1, 0, 0, crc8_atm(<<1, 0, 0>>)>>

C18_EmergencyStopCutsMotor ==
    /\ (aru # 0 /\ aru = ser /\ is_connected) =>
           (is_auto_sending /\ after_pending > 0)
    /\ (tx # <<>> /\ tx[1].aru # 0) => tx[1].frame = CutOffFrame

(***************************************************************************)
(* C19  Single mutator.  Across every sequence of connect, disconnect,     *)
(* reconnect and window-close actions, at most one reader thread at a time *)
(* is appending to, parsing or deleting from the accumulator: no two       *)
(* threads are both between reading a chunk and leaving the extraction     *)
(* loop.                                                                   *)
(***************************************************************************)
Mutators == {t \in Threads : pc[t] \in {"extend", "loop"}}

C19_SingleMutator == Cardinality(Mutators) <= 1

(***************************************************************************)
(* C20  Residual accumulator.  Whenever a feed call has returned, the      *)
(* accumulator is empty, or is the single byte 0xAA, or begins with 0xAA   *)
(* 0x55 and holds 2 to 36 bytes, or begins with a byte whose bit 7 is      *)
(* clear and holds 1 to 3 bytes; so between feed calls it never holds more *)
(* than 36 bytes and never begins with an unrecognized byte, for every     *)
(* stream and chunking.                                                    *)
(***************************************************************************)
Residual(buf) ==
    \/ buf = <<>>
    \/ buf = <<170>>
    \/ Len(buf) \in 2..36 /\ buf[1] = 170 /\ buf[2] = 85
    \/ Len(buf) \in 1..3 /\ buf[1] < 128

C20_ResidualAccumulator ==
    FeedDone =>
        /\ Residual(rx_buffer)
        /\ Len(rx_buffer) <= 36
        /\ rx_buffer # <<>> => (rx_buffer[1] = 170 \/ rx_buffer[1] < 128)

\* After garbage and the first 36 bytes of a telemetry frame, the feed
\* call has returned with the 36 bytes waiting for the last one.
C20_Witness ==
    /\ segs = <<"HI", "IMU">>
    /\ fed = 37
    /\ FeedDone
    /\ Len(rx_buffer) = 36
    /\ consumed = 1

(***************************************************************************)
(* C21  Single heartbeat chain.  For every sequence of heartbeat toggles,  *)
(* slider moves, emergency stops, disconnects and reconnects interleaved   *)
(* with timer expirations, at most one _auto_send_loop callback is pending *)
(* at any time, and a callback that fires once the heartbeat has been      *)
(* switched off or the link disconnected writes no frame.                  *)
(***************************************************************************)
\* A step in which a scheduled callback fires while the heartbeat is off
\* or the link is down: the callback is not scheduled again.
ExpiresIdle ==
    /\ after_pending' = after_pending - 1
    /\ ~(is_auto_sending /\ is_connected)

C21_SingleHeartbeatChain ==
    /\ [](after_pending <= 1)
    /\ [][ExpiresIdle => tx' = tx]_vars

=============================================================================
